---- MODULE Spec2Model ----
(***************************************************************************)
(* Model of scripts/8kHz_polling.py: the PlatformIO pre-build hook that    *)
(* backs up usb_desc.h, patches MOUSE_INTERVAL 2 -> 1 in place, and        *)
(* registers restore_backup as a post-action of firmware.elf.              *)
(*                                                                         *)
(* A file is a record [exists, data]; data is a sequence of symbols.  The  *)
(* symbol "D" stands for the text "#define MOUSE_INTERVAL        " (the     *)
(* common prefix of the two literals of lines 60-61), "2" and "1" for the  *)
(* digit that follows it; a symbol outside such a pair is other text.      *)
(*                                                                         *)
(* Every statement of the script that touches the file system is one       *)
(* action, so that a run can stop between any two of them.                 *)
(***************************************************************************)
EXTENDS Integers, Sequences, FiniteSets, TLC

VARIABLES
    original_header,  \* the file at original_header_path
    backup_header,    \* the file at backup_header_path
    pc,               \* pc[p]: the statement invocation p executes next
    content,          \* content[p]: the script's variable `content`
    log,              \* log[p]: effects of p's current invocation, in order
    hist,             \* hist[p]: completed operations, with pre/post file states
    cur,              \* cur[p]: the operation in progress and its pre-state
    runs,             \* number of invocations started so far
    mode,             \* "script": the script body; "ops": blocks called one by one
    pristine,         \* content of the header before any patching (history)
    outcomes          \* how the earlier invocations ended (history)

vars == <<original_header, backup_header, pc, content, log, hist, cur, runs,
          mode, pristine, outcomes>>

(* ---- bounds ---------------------------------------------------------- *)
MaxLen == 4
MaxRuns == 3
MaxCalls == 2
OpsMaxLen == 2

(* ---- data ------------------------------------------------------------ *)
Procs == {1, 2}

Chars == {"D", "2", "1"}

original_mouse_interval == <<"D", "2">>

modified_mouse_interval == <<"D", "1">>

SeqsUpTo(n) == UNION {[1..k -> Chars] : k \in 0..n}

NoFile == [exists |-> FALSE, data |-> <<>>]

File(d) == [exists |-> TRUE, data |-> d]

(* os.path.exists *)
Exists(f) == f.exists

(* `m in s` on strings: m occurs as a contiguous substring *)
Contains(s, m) ==
    \E i \in 1..(Len(s) - Len(m) + 1) : SubSeq(s, i, i + Len(m) - 1) = m

(* mutant: only the first occurrence is replaced (str.replace with count 1) *)
RECURSIVE Replace_first(_, _, _)
Replace_first(s, m, r) ==
    IF Len(s) < Len(m) THEN s
    ELSE IF SubSeq(s, 1, Len(m)) = m
         THEN r \o SubSeq(s, Len(m) + 1, Len(s))
         ELSE <<Head(s)>> \o Replace_first(Tail(s), m, r)

(* str.replace: every non-overlapping occurrence, scanning left to right *)
RECURSIVE Replace(_, _, _)
Replace(s, m, r) ==
    IF Len(s) < Len(m) THEN s
    ELSE IF SubSeq(s, 1, Len(m)) = m
         THEN r \o Replace(SubSeq(s, Len(m) + 1, Len(s)), m, r)
         ELSE <<Head(s)>> \o Replace(Tail(s), m, r)

(* content.replace(original_mouse_interval, modified_mouse_interval) *)
Patched(c) == Replace(c, original_mouse_interval, modified_mouse_interval)

(* shutil.copy(src, dst): dst exists afterwards and holds src's content *)
CopyFile(src) == File(src.data)

(* what a failed f.write may leave in a file opened with "w" *)
PartialWrites(d) == {SubSeq(d, 1, k) : k \in 0..(Len(d) - 1)}

FS == [orig |-> original_header, bak |-> backup_header]

Running == {"ensure_clean", "ec_copy", "ec_remove", "backup", "read", "check",
            "open_w", "write", "comp_copy", "comp_remove", "register",
            "build", "restore_check", "restore_copy", "restore_remove"}

Ended == {"idle", "ret", "done", "crashed", "build_failed",
          "exit_backup_failed", "exit_patch_failed"}

(* ---- bookkeeping of the history variables ------------------------------ *)
Goto(p, to) == pc' = [pc EXCEPT ![p] = to]

Effect(p, e) == log' = [log EXCEPT ![p] = Append(@, e)]

Begin(p, op, fs) == cur' = [cur EXCEPT ![p] = [op |-> op, pre |-> fs]]

Finish(p, res, fs) ==
    hist' = [hist EXCEPT ![p] =
                Append(@, [op |-> cur[p].op, pre |-> cur[p].pre,
                           post |-> fs, res |-> res])]

(* mutant: the patch block is entered without the backup having been made *)
AfterEnsureClean_skipBackup == IF mode = "script" THEN "read" ELSE "ret"

(* In the script the backup block follows the safety check directly;      *)
(* called as a block of its own, control returns to the caller.            *)
AfterEnsureClean == IF mode = "script" THEN "backup" ELSE "ret"

AfterApply == IF mode = "script" THEN "register" ELSE "ret"

EndEnsureClean(p, fs) ==
    /\ Goto(p, AfterEnsureClean)
    /\ Finish(p, "ok", fs)
    /\ IF mode = "script" THEN Begin(p, "apply", fs) ELSE UNCHANGED cur

(* ---- Safety Check and Restore (lines 41-44) ---------------------------- *)
(* mutant: the safety check is left out *)
EnsureCleanCheck_skip(p) ==
    /\ pc[p] = "ensure_clean"
    /\ EndEnsureClean(p, FS)
    /\ UNCHANGED <<original_header, backup_header, content, log, runs, mode,
                   pristine, outcomes>>

EnsureCleanCheck(p) ==
    /\ pc[p] = "ensure_clean"
    /\ IF Exists(backup_header)
       THEN /\ Goto(p, "ec_copy")
            /\ UNCHANGED <<hist, cur>>
       ELSE EndEnsureClean(p, FS)
    /\ UNCHANGED <<original_header, backup_header, content, log, runs, mode,
                   pristine, outcomes>>

(* mutant: the copy goes from the original to the old backup *)
EnsureCleanCopy_reversed(p) ==
    /\ pc[p] = "ec_copy"
    /\ backup_header' = CopyFile(original_header)
    /\ Goto(p, "ec_remove")
    /\ Effect(p, "ec_copy")
    /\ UNCHANGED <<original_header, content, hist, cur, runs, mode, pristine, outcomes>>

EnsureCleanCopy(p) ==
    /\ pc[p] = "ec_copy"
    /\ original_header' = CopyFile(backup_header)
    /\ Goto(p, "ec_remove")
    /\ Effect(p, "ec_copy")
    /\ UNCHANGED <<backup_header, content, hist, cur, runs, mode, pristine, outcomes>>

(* mutant: the old backup is copied back but not removed *)
EnsureCleanRemove_keep(p) ==
    /\ pc[p] = "ec_remove"
    /\ EndEnsureClean(p, FS)
    /\ Effect(p, "ec_remove")
    /\ UNCHANGED <<original_header, backup_header, content, runs, mode,
                   pristine, outcomes>>

EnsureCleanRemove(p) ==
    /\ pc[p] = "ec_remove"
    /\ backup_header' = NoFile
    /\ EndEnsureClean(p, [orig |-> original_header, bak |-> NoFile])
    /\ Effect(p, "ec_remove")
    /\ UNCHANGED <<original_header, content, runs, mode, pristine, outcomes>>

(* ---- Create a backup of the original file (lines 47-52) ----------------- *)
(* mutant: the backup is taken of the patched content *)
BackupCopy_afterPatch(p) ==
    /\ pc[p] = "backup"
    /\ backup_header' = File(Patched(original_header.data))
    /\ Goto(p, "read")
    /\ Effect(p, "bak_copy")
    /\ UNCHANGED <<original_header, content, hist, cur, runs, mode, pristine, outcomes>>

BackupCopy(p) ==
    /\ pc[p] = "backup"
    /\ backup_header' = CopyFile(original_header)
    /\ Goto(p, "read")
    /\ Effect(p, "bak_copy")
    /\ UNCHANGED <<original_header, content, hist, cur, runs, mode, pristine, outcomes>>

(* mutant: the error is printed and the script goes on *)
BackupCopyFails_continue(p) ==
    /\ pc[p] = "backup"
    /\ Goto(p, "read")
    /\ Effect(p, "backup_error")
    /\ UNCHANGED <<original_header, backup_header, content, hist, cur, runs,
                   mode, pristine, outcomes>>

(* except IOError: print, exit(1); the copy left nothing behind *)
BackupCopyFails(p) ==
    /\ pc[p] = "backup"
    /\ Goto(p, "exit_backup_failed")
    /\ Effect(p, "backup_error")
    /\ Finish(p, "BackupFailed", FS)
    /\ UNCHANGED <<original_header, backup_header, content, cur, runs, mode,
                   pristine, outcomes>>

(* ---- Read, Patch, and Overwrite the Original File (lines 55-76) --------- *)
ReadOriginal(p) ==
    /\ pc[p] = "read"
    /\ content' = [content EXCEPT ![p] = original_header.data]
    /\ Goto(p, "check")
    /\ Effect(p, "read")
    /\ UNCHANGED <<original_header, backup_header, hist, cur, runs, mode,
                   pristine, outcomes>>

ReadOriginalFails(p) ==
    /\ pc[p] = "read"
    /\ Goto(p, "comp_copy")
    /\ Effect(p, "read_error")
    /\ UNCHANGED <<original_header, backup_header, content, hist, cur, runs,
                   mode, pristine, outcomes>>

(* mutant: the content is replaced and written without the membership test *)
PatternCheck_alwaysWrite(p) ==
    /\ pc[p] = "check"
    /\ content' = [content EXCEPT ![p] = Patched(@)]
    /\ Goto(p, "open_w")
    /\ UNCHANGED <<original_header, backup_header, log, hist, cur, runs, mode,
                   pristine, outcomes>>

(* mutant: the membership test looks for modified_mouse_interval *)
PatternCheck_wrongLiteral(p) ==
    /\ pc[p] = "check"
    /\ IF Contains(content[p], modified_mouse_interval)
       THEN /\ content' = [content EXCEPT ![p] = Patched(@)]
            /\ Goto(p, "open_w")
            /\ UNCHANGED <<log, hist>>
       ELSE /\ Goto(p, AfterApply)
            /\ Effect(p, "skip")
            /\ Finish(p, "noop", FS)
            /\ UNCHANGED content
    /\ UNCHANGED <<original_header, backup_header, cur, runs, mode, pristine, outcomes>>

PatternCheck(p) ==
    /\ pc[p] = "check"
    /\ IF Contains(content[p], original_mouse_interval)
       THEN /\ content' = [content EXCEPT ![p] = Patched(@)]
            /\ Goto(p, "open_w")
            /\ UNCHANGED <<log, hist>>
       ELSE /\ Goto(p, AfterApply)
            /\ Effect(p, "skip")
            /\ Finish(p, "noop", FS)
            /\ UNCHANGED content
    /\ UNCHANGED <<original_header, backup_header, cur, runs, mode, pristine, outcomes>>

(* open(original_header_path, "w") truncates the file *)
OpenForWrite(p) ==
    /\ pc[p] = "open_w"
    /\ original_header' = File(<<>>)
    /\ Goto(p, "write")
    /\ Effect(p, "truncate")
    /\ UNCHANGED <<backup_header, content, hist, cur, runs, mode, pristine, outcomes>>

OpenForWriteFails(p) ==
    /\ pc[p] = "open_w"
    /\ Goto(p, "comp_copy")
    /\ Effect(p, "open_error")
    /\ UNCHANGED <<original_header, backup_header, content, hist, cur, runs,
                   mode, pristine, outcomes>>

WriteContent(p) ==
    /\ pc[p] = "write"
    /\ original_header' = File(content[p])
    /\ Goto(p, AfterApply)
    /\ Effect(p, "write")
    /\ Finish(p, "patched", [orig |-> File(content[p]), bak |-> backup_header])
    /\ UNCHANGED <<backup_header, content, cur, runs, mode, pristine, outcomes>>

(* mutant: exit(1) without restoring from the backup *)
WriteContentFails_noRestore(p) ==
    /\ pc[p] = "write"
    /\ \E d \in PartialWrites(content[p]) :
          /\ original_header' = File(d)
          /\ Finish(p, "PatchFailed", [orig |-> File(d), bak |-> backup_header])
    /\ Goto(p, "exit_patch_failed")
    /\ Effect(p, "write_error")
    /\ UNCHANGED <<backup_header, content, cur, runs, mode, pristine, outcomes>>

WriteContentFails(p) ==
    /\ pc[p] = "write"
    /\ \E d \in PartialWrites(content[p]) : original_header' = File(d)
    /\ Goto(p, "comp_copy")
    /\ Effect(p, "write_error")
    /\ UNCHANGED <<backup_header, content, hist, cur, runs, mode, pristine, outcomes>>

(* mutant: the backup is removed without being copied back *)
CompensateCopy_skip(p) ==
    /\ pc[p] = "comp_copy"
    /\ Goto(p, "comp_remove")
    /\ Effect(p, "comp_copy")
    /\ UNCHANGED <<original_header, backup_header, content, hist, cur, runs,
                   mode, pristine, outcomes>>

(* the except IOError branch: restore from backup, then exit(1) *)
CompensateCopy(p) ==
    /\ pc[p] = "comp_copy"
    /\ original_header' = CopyFile(backup_header)
    /\ Goto(p, "comp_remove")
    /\ Effect(p, "comp_copy")
    /\ UNCHANGED <<backup_header, content, hist, cur, runs, mode, pristine, outcomes>>

(* mutant: no exit(1) after the restore; the script goes on to line 90 *)
CompensateRemove_noExit(p) ==
    /\ pc[p] = "comp_remove"
    /\ backup_header' = NoFile
    /\ Goto(p, "register")
    /\ Effect(p, "comp_remove")
    /\ Finish(p, "PatchFailed", [orig |-> original_header, bak |-> NoFile])
    /\ UNCHANGED <<original_header, content, cur, runs, mode, pristine, outcomes>>

CompensateRemove(p) ==
    /\ pc[p] = "comp_remove"
    /\ backup_header' = NoFile
    /\ Goto(p, "exit_patch_failed")
    /\ Effect(p, "comp_remove")
    /\ Finish(p, "PatchFailed", [orig |-> original_header, bak |-> NoFile])
    /\ UNCHANGED <<original_header, content, cur, runs, mode, pristine, outcomes>>

(* ---- env.AddPostAction(firmware.elf, restore_backup) (line 90) ---------- *)
Register(p) ==
    /\ pc[p] = "register"
    /\ Goto(p, "build")
    /\ Effect(p, "register")
    /\ UNCHANGED <<original_header, backup_header, content, hist, cur, runs,
                   mode, pristine, outcomes>>

(* ---- the guarded build (the orchestrator) ------------------------------- *)
BuildSucceeds(p) ==
    /\ pc[p] = "build"
    /\ Goto(p, "restore_check")
    /\ Effect(p, "build_ok")
    /\ Begin(p, "restore", FS)
    /\ UNCHANGED <<original_header, backup_header, content, hist, runs, mode,
                   pristine, outcomes>>

(* The post-action hangs on the target firmware.elf: a build that fails    *)
(* before the target is produced ends without calling it (the case the     *)
(* comment of lines 39-40 provides for); post = TRUE is the case of the    *)
(* comment of line 79.                                                     *)
BuildFails(p) ==
    /\ pc[p] = "build"
    /\ Effect(p, "build_fail")
    /\ \E post \in BOOLEAN :
          IF post
          THEN Goto(p, "restore_check") /\ Begin(p, "restore", FS)
          ELSE Goto(p, "build_failed") /\ UNCHANGED cur
    /\ UNCHANGED <<original_header, backup_header, content, hist, runs, mode,
                   pristine, outcomes>>

(* ---- restore_backup (lines 80-87) --------------------------------------- *)
(* mutant: no os.path.exists test; shutil.copy raises on the missing file *)
RestoreCheck_noExistsTest(p) ==
    /\ pc[p] = "restore_check"
    /\ IF Exists(backup_header)
       THEN /\ Goto(p, "restore_copy")
            /\ UNCHANGED <<log, hist>>
       ELSE /\ Goto(p, "crashed")
            /\ Effect(p, "error")
            /\ Finish(p, "error", FS)
    /\ UNCHANGED <<original_header, backup_header, content, cur, runs, mode,
                   pristine, outcomes>>

RestoreCheck(p) ==
    /\ pc[p] = "restore_check"
    /\ IF Exists(backup_header)
       THEN /\ Goto(p, "restore_copy")
            /\ UNCHANGED <<log, hist>>
       ELSE /\ Goto(p, "done")
            /\ Effect(p, "warning")
            /\ Finish(p, "warning", FS)
    /\ UNCHANGED <<original_header, backup_header, content, cur, runs, mode,
                   pristine, outcomes>>

(* mutant: the copy goes from the original to the backup *)
RestoreCopy_reversed(p) ==
    /\ pc[p] = "restore_copy"
    /\ backup_header' = CopyFile(original_header)
    /\ Goto(p, "restore_remove")
    /\ Effect(p, "rs_copy")
    /\ UNCHANGED <<original_header, content, hist, cur, runs, mode, pristine, outcomes>>

RestoreCopy(p) ==
    /\ pc[p] = "restore_copy"
    /\ original_header' = CopyFile(backup_header)
    /\ Goto(p, "restore_remove")
    /\ Effect(p, "rs_copy")
    /\ UNCHANGED <<backup_header, content, hist, cur, runs, mode, pristine, outcomes>>

RestoreRemove(p) ==
    /\ pc[p] = "restore_remove"
    /\ backup_header' = NoFile
    /\ Goto(p, "done")
    /\ Effect(p, "rs_remove")
    /\ Finish(p, "restored", [orig |-> original_header, bak |-> NoFile])
    /\ UNCHANGED <<original_header, content, cur, runs, mode, pristine, outcomes>>

(* ---- invocations --------------------------------------------------------- *)
(* how an invocation ended, by the statement it ended at *)
Outcome(at) ==
    CASE at = "done" -> "restored"
      [] at = "build_failed" -> "build_failed"
      [] at \in {"exit_backup_failed", "exit_patch_failed"} -> "apply_failed"
      [] OTHER -> "stopped"

(* A new run of the script takes the lowest free slot.                     *)
StartRun(p) ==
    /\ mode = "script"
    /\ pc[p] \in Ended
    /\ \A q \in Procs : q < p => pc[q] \in Running
    /\ runs < MaxRuns
    /\ runs' = runs + 1
    /\ Goto(p, "ensure_clean")
    /\ content' = [content EXCEPT ![p] = <<>>]
    /\ log' = [log EXCEPT ![p] = <<>>]
    /\ hist' = [hist EXCEPT ![p] = <<>>]
    /\ Begin(p, "ensureClean", FS)
    /\ outcomes' = IF pc[p] = "idle" THEN outcomes
                   ELSE outcomes \cup {Outcome(pc[p])}
    /\ UNCHANGED <<original_header, backup_header, mode, pristine>>

(* mutant: nothing serializes the runs; a run starts while another is in  *)
(* progress                                                                 *)
Start_unserialized(p) == StartRun(p)

(* The orchestrator serializes the runs on one target. *)
Start(p) ==
    /\ \A q \in Procs : pc[q] \notin Running
    /\ StartRun(p)

(* The run stops (killed, or an exception nothing catches) between two     *)
(* statements.                                                             *)
Crash(p) ==
    /\ mode = "script"
    /\ pc[p] \in Running
    /\ Goto(p, "crashed")
    /\ UNCHANGED <<original_header, backup_header, content, log, hist, cur,
                   runs, mode, pristine, outcomes>>

(* One block of the script called on its own. *)
Entry(op) ==
    CASE op = "ensureClean" -> "ensure_clean"
      [] op = "apply" -> "backup"
      [] op = "restore" -> "restore_check"

Call(p, op) ==
    /\ mode = "ops"
    /\ p = 1
    /\ pc[p] \in Ended
    /\ runs < MaxCalls
    /\ runs' = runs + 1
    /\ Goto(p, Entry(op))
    /\ Begin(p, op, FS)
    /\ UNCHANGED <<original_header, backup_header, content, log, hist, mode,
                   pristine, outcomes>>

CallEnsureClean(p) == Call(p, "ensureClean")

CallApply(p) == Call(p, "apply")

CallRestore(p) == Call(p, "restore")

(* ---- specifications ------------------------------------------------------ *)
InitCommon ==
    /\ pc = [p \in Procs |-> "idle"]
    /\ content = [p \in Procs |-> <<>>]
    /\ log = [p \in Procs |-> <<>>]
    /\ hist = [p \in Procs |-> <<>>]
    /\ cur = [p \in Procs |-> [op |-> "none", pre |-> [orig |-> NoFile, bak |-> NoFile]]]
    /\ runs = 0
    /\ pristine = original_header.data
    /\ outcomes = {}

Init ==
    /\ original_header \in {File(d) : d \in SeqsUpTo(MaxLen)}
    /\ backup_header = NoFile
    /\ mode = "script"
    /\ InitCommon

OpsInit ==
    /\ original_header \in {File(d) : d \in SeqsUpTo(OpsMaxLen)}
    /\ backup_header \in {File(d) : d \in SeqsUpTo(OpsMaxLen)} \cup {NoFile}
    /\ mode = "ops"
    /\ InitCommon

Step(p) ==
    \/ EnsureCleanCheck(p)
    \/ EnsureCleanCopy(p)
    \/ EnsureCleanRemove(p)
    \/ BackupCopy(p)
    \/ BackupCopyFails(p)
    \/ ReadOriginal(p)
    \/ ReadOriginalFails(p)
    \/ PatternCheck(p)
    \/ OpenForWrite(p)
    \/ OpenForWriteFails(p)
    \/ WriteContent(p)
    \/ WriteContentFails(p)
    \/ CompensateCopy(p)
    \/ CompensateRemove(p)
    \/ RestoreCheck(p)
    \/ RestoreCopy(p)
    \/ RestoreRemove(p)

Next ==
    \E p \in Procs :
        \/ Start(p)
        \/ Step(p)
        \/ Register(p)
        \/ BuildSucceeds(p)
        \/ BuildFails(p)
        \/ Crash(p)

OpsNext ==
    \E p \in Procs :
        \/ CallEnsureClean(p)
        \/ CallApply(p)
        \/ CallRestore(p)
        \/ Step(p)

Spec == Init /\ [][Next]_vars

OpsSpec == OpsInit /\ [][OpsNext]_vars

(* ---- vocabulary of the properties --------------------------------------- *)
Has(l, e) == \E i \in 1..Len(l) : l[i] = e

Last(h) == h[Len(h)]

Clean == original_header = File(pristine) /\ backup_header = NoFile

HasMatch(f) == Contains(f.data, original_mouse_interval)

(* C1: round trip.  When a run has applied the patch to a header whose     *)
(* content C contains the match text and restore_backup has then run, the  *)
(* original file holds exactly C again and no backup file is left.         *)
C1_RoundTrip ==
    \A p \in Procs :
        (/\ pc[p] = "done"
         /\ Len(hist[p]) >= 2
         /\ hist[p][Len(hist[p]) - 1].op = "apply"
         /\ Last(hist[p]).op = "restore"
         /\ HasMatch(hist[p][Len(hist[p]) - 1].pre.orig))
        => /\ original_header = hist[p][Len(hist[p]) - 1].pre.orig
           /\ backup_header = NoFile

C1_Witness ==
    \E p \in Procs :
        /\ pc[p] = "done"
        /\ Len(hist[p]) = 3
        /\ hist[p][2].op = "apply" /\ hist[p][2].res = "patched"
        /\ hist[p][2].post.orig # hist[p][2].pre.orig
        /\ hist[p][3].res = "restored"
        /\ original_header = hist[p][2].pre.orig

(* C2: in every reachable state, also between two file operations and      *)
(* after a stopped run, a backup file that exists holds the pristine       *)
(* content of the header.                                                  *)
C2_BackupPristine ==
    Exists(backup_header) => backup_header.data = pristine

C2_Witness ==
    \E p \in Procs :
        /\ pc[p] = "ec_copy"
        /\ Exists(backup_header)
        /\ original_header.data # pristine
        /\ backup_header.data = pristine

(* C3: in every run in which the patch block completed and the build then  *)
(* concluded, with success or with failure, restore_backup has run and the *)
(* run ends Clean: the original pristine and no backup file.               *)
C3_RestoreAfterAnyBuild ==
    \A p \in Procs :
        (/\ Has(log[p], "build_ok") \/ Has(log[p], "build_fail")
         /\ pc[p] \in Ended \ {"crashed"})
        => /\ Last(hist[p]).op = "restore"
           /\ Clean

(* C4: crash recovery.  A run that starts with a backup file present and   *)
(* the original in patched state, and goes through the safety check, the   *)
(* patch and restore_backup, leaves the original identical to its          *)
(* pre-patch content and leaves no backup file.                            *)
C4_CrashRecovery ==
    \A p \in Procs :
        (/\ pc[p] = "done"
         /\ Len(hist[p]) = 3
         /\ hist[p][1].op = "ensureClean"
         /\ Exists(hist[p][1].pre.bak)
         /\ hist[p][1].pre.orig # hist[p][1].pre.bak)
        => /\ original_header = hist[p][1].pre.bak
           /\ original_header.data = pristine
           /\ backup_header = NoFile

C4_Witness ==
    \E p \in Procs :
        /\ pc[p] = "done"
        /\ Len(hist[p]) = 3
        /\ Exists(hist[p][1].pre.bak)
        /\ hist[p][1].pre.orig.data = Patched(pristine)
        /\ Patched(pristine) # pristine
        /\ hist[p][2].res = "patched"
        /\ hist[p][3].res = "restored"

(* C5: the backup file is the indicator of a patch in flight: in every     *)
(* reachable state, also after a run stopped at any point, an original     *)
(* whose content differs from the pristine content comes with a backup     *)
(* file, and without a backup file the original is pristine.               *)
C5_BackupIndicatesPatch ==
    /\ original_header.data # pristine => Exists(backup_header)
    /\ ~Exists(backup_header) => original_header = File(pristine)

C5_Witness ==
    \E p \in Procs :
        /\ pc[p] = "crashed"
        /\ original_header.data # pristine
        /\ Exists(backup_header)

(* C6: when the copy of the original to the backup fails, the run ends     *)
(* there with an error: the original is neither read nor written, holds    *)
(* what it held after the safety check, and nothing of the run follows.    *)
C6_BackupFailedAborts ==
    \A p \in Procs :
        Has(log[p], "backup_error")
        => /\ pc[p] = "exit_backup_failed"
           /\ Last(log[p]) = "backup_error"
           /\ Last(hist[p]).res = "BackupFailed"
           /\ original_header = hist[p][1].post.orig
           /\ \A e \in {"bak_copy", "read", "truncate", "write", "comp_copy",
                        "register", "build_ok", "build_fail"} : ~Has(log[p], e)

C6_Witness ==
    \E p \in Procs :
        /\ pc[p] = "exit_backup_failed"
        /\ Last(hist[p]).res = "BackupFailed"
        /\ HasMatch(original_header)
        /\ Has(log[p], "ec_remove")

(* C7: when reading or writing the original fails in the patch block, the  *)
(* backup is copied over the original and removed before the script exits  *)
(* with the error: at that exit the original holds what it held before     *)
(* the block and no backup exists, and on the way there the original is    *)
(* never changed without a backup file.                                    *)
PatchError(p) ==
    \/ Has(log[p], "read_error")
    \/ Has(log[p], "open_error")
    \/ Has(log[p], "write_error")

C7_PatchFailedCompensates ==
    \A p \in Procs :
        PatchError(p)
        => /\ pc[p] \in {"comp_copy", "comp_remove", "exit_patch_failed", "crashed"}
           /\ original_header.data # pristine => Exists(backup_header)
           /\ pc[p] = "exit_patch_failed"
              => /\ Last(hist[p]).res = "PatchFailed"
                 /\ original_header = Last(hist[p]).pre.orig
                 /\ Clean
                 /\ SubSeq(log[p], Len(log[p]) - 1, Len(log[p]))
                        = <<"comp_copy", "comp_remove">>

C7_Witness ==
    \E p \in Procs :
        /\ pc[p] = "exit_patch_failed"
        /\ Has(log[p], "truncate")
        /\ Has(log[p], "write_error")
        /\ HasMatch(original_header)
        /\ Clean

(* C8: restore_backup is idempotent.  Called with no backup file it ends   *)
(* normally with the warning and changes neither file; called twice in a   *)
(* row, the second call is that warning and the files are as after the     *)
(* first call.                                                             *)
C8_RestoreIdempotent ==
    \A p \in Procs : \A i \in 1..Len(hist[p]) :
        hist[p][i].op = "restore"
        => /\ hist[p][i].res \in {"restored", "warning"}
           /\ ~Exists(hist[p][i].pre.bak)
              => /\ hist[p][i].res = "warning"
                 /\ hist[p][i].post = hist[p][i].pre
           /\ (i > 1 /\ hist[p][i - 1].op = "restore")
              => /\ hist[p][i].res = "warning"
                 /\ hist[p][i].post = hist[p][i - 1].post
           /\ (i = Len(hist[p]) /\ pc[p] \in Ended)
              => /\ pc[p] = "done"
                 /\ FS = hist[p][i].post

C8_Witness ==
    \E p \in Procs :
        /\ pc[p] = "done"
        /\ Len(hist[p]) = 2
        /\ hist[p][1].op = "restore" /\ hist[p][1].res = "restored"
        /\ hist[p][1].pre.orig # hist[p][1].pre.bak
        /\ hist[p][2].op = "restore" /\ hist[p][2].res = "warning"
        /\ FS = hist[p][1].post

(* C9: when the match text is not in the original, the patch block does    *)
(* not write the original (no open for writing, no write, content          *)
(* unchanged) but leaves a backup file, and restore_backup then finds that *)
(* backup and the run ends Clean.                                          *)
C9_AbsentPatternNoWrite ==
    \A p \in Procs : \A i \in 1..Len(hist[p]) :
        (/\ hist[p][i].op = "apply"
         /\ hist[p][i].res \in {"noop", "patched"}
         /\ ~HasMatch(hist[p][i].pre.orig))
        => /\ hist[p][i].res = "noop"
           /\ hist[p][i].post.orig = hist[p][i].pre.orig
           /\ Exists(hist[p][i].post.bak)
           /\ ~Has(log[p], "truncate") /\ ~Has(log[p], "write")
           /\ pc[p] \in {"register", "build"} => FS = hist[p][i].post
           /\ pc[p] = "done"
              => /\ Last(hist[p]).res = "restored"
                 /\ original_header = hist[p][i].pre.orig
                 /\ Clean

C9_Witness ==
    \E p \in Procs :
        /\ pc[p] = "done"
        /\ Len(hist[p]) = 3
        /\ hist[p][2].op = "apply" /\ hist[p][2].res = "noop"
        /\ Exists(hist[p][2].post.bak)
        /\ hist[p][3].res = "restored"

(* C10: idempotent apply.  When the patch block has completed, leaving the *)
(* replacement text in the original, and is run again with no              *)
(* restore_backup in between, the second run does not patch (it skips, or  *)
(* fails on I/O) and the original's content is as after the first run.     *)
C10_ApplyTwice ==
    \A p \in Procs : \A i \in 1..(Len(hist[p]) - 1) :
        (/\ hist[p][i].op = "apply" /\ hist[p][i + 1].op = "apply"
         /\ hist[p][i].res \in {"noop", "patched"}
         /\ Contains(hist[p][i].post.orig.data, modified_mouse_interval))
        => /\ hist[p][i + 1].res \in {"noop", "BackupFailed", "PatchFailed"}
           /\ hist[p][i + 1].post.orig = hist[p][i].post.orig
           /\ (i + 1 = Len(hist[p]) /\ pc[p] \in Ended)
              => original_header = hist[p][i].post.orig

C10_Witness ==
    \E p \in Procs :
        /\ pc[p] = "ret"
        /\ Len(hist[p]) = 2
        /\ hist[p][1].op = "apply" /\ hist[p][1].res = "patched"
        /\ hist[p][1].post.orig # hist[p][1].pre.orig
        /\ hist[p][2].op = "apply" /\ hist[p][2].res = "noop"
        /\ original_header = hist[p][1].post.orig

(* C11: when the safety check has finished, no backup file exists and the  *)
(* original holds the pristine content: a backup that existed was copied   *)
(* over the original and then removed; with no backup, neither file was    *)
(* touched.                                                                *)
C11_EnsureCleanResult ==
    \A p \in Procs : \A i \in 1..Len(hist[p]) :
        hist[p][i].op = "ensureClean"
        => /\ ~Exists(hist[p][i].post.bak)
           /\ hist[p][i].post.orig = File(pristine)
           /\ Exists(hist[p][i].pre.bak)
              => /\ hist[p][i].post.orig = hist[p][i].pre.bak
                 /\ Len(log[p]) >= 2
                 /\ SubSeq(log[p], 1, 2) = <<"ec_copy", "ec_remove">>
           /\ ~Exists(hist[p][i].pre.bak)
              => /\ hist[p][i].post = hist[p][i].pre
                 /\ ~Has(log[p], "ec_copy") /\ ~Has(log[p], "ec_remove")
           /\ pc[p] = "backup" => FS = hist[p][i].post

C11_Witness ==
    \E p \in Procs :
        /\ pc[p] = "backup"
        /\ Len(hist[p]) = 1
        /\ hist[p][1].op = "ensureClean"
        /\ Exists(hist[p][1].pre.bak)
        /\ hist[p][1].pre.orig # hist[p][1].pre.bak
        /\ Clean

(* C12: after the patch block has written a header that contained the      *)
(* match text, every occurrence of the match text is replaced by the       *)
(* replacement text and none remains, the backup holds the content from    *)
(* before the block, and the two files stay so through the registration    *)
(* and the build until restore_backup copies the backup back.              *)
EveryOccurrenceReplaced(before, after) ==
    /\ Len(after) = Len(before)
    /\ \A k \in 1..Len(before) :
          after[k] = IF k > 1 /\ before[k - 1] = "D" /\ before[k] = "2"
                     THEN "1"
                     ELSE before[k]

C12_PatchedState ==
    \A p \in Procs : \A i \in 1..Len(hist[p]) :
        (hist[p][i].op = "apply" /\ hist[p][i].res = "patched")
        => /\ HasMatch(hist[p][i].pre.orig)
           /\ EveryOccurrenceReplaced(hist[p][i].pre.orig.data,
                                      hist[p][i].post.orig.data)
           /\ ~HasMatch(hist[p][i].post.orig)
           /\ hist[p][i].post.bak = hist[p][i].pre.orig
           /\ pc[p] \in {"register", "build", "restore_check", "restore_copy",
                         "build_failed"}
              => FS = hist[p][i].post

C12_Witness ==
    \E p \in Procs :
        /\ pc[p] = "build"
        /\ pristine = <<"D", "2", "D", "2">>
        /\ original_header = File(<<"D", "1", "D", "1">>)
        /\ backup_header = File(pristine)

(* C13: a run may stop between any two file operations of the safety       *)
(* check, the patch block or restore_backup; whatever state the earlier    *)
(* runs stopped in, a later run that goes through all of safety check,     *)
(* patch block, build and restore_backup ends with the original pristine   *)
(* and no backup file.                                                     *)
C13_RecoveryFromAnyStop ==
    \A p \in Procs :
        (pc[p] = "done" /\ runs >= 2)
        => /\ Len(hist[p]) = 3
           /\ hist[p][1].op = "ensureClean"
           /\ hist[p][2].op = "apply"
           /\ hist[p][3].op = "restore" /\ hist[p][3].res = "restored"
           /\ original_header = File(pristine)
           /\ ~Exists(backup_header)

(* the earlier run stopped between open(..., "w") and f.write *)
C13_Witness ==
    \E p \in Procs :
        /\ pc[p] = "done"
        /\ runs >= 2
        /\ hist[p][1].pre.orig = File(<<>>)
        /\ Exists(hist[p][1].pre.bak)
        /\ HasMatch(hist[p][1].pre.bak)
        /\ hist[p][2].res = "patched"
        /\ original_header = hist[p][1].pre.bak

(* C14: the build never runs after a failed patch block: when the backup   *)
(* copy or the read/write failed, the script is on its way to exit(1) or   *)
(* has exited with it, the post-action is not registered and no build has  *)
(* started; a run that builds has a patch block that reported no error.    *)
ApplyFailed(p) == Has(log[p], "backup_error") \/ PatchError(p)

Built(p) == Has(log[p], "build_ok") \/ Has(log[p], "build_fail")

C14_NoBuildAfterFailedApply ==
    \A p \in Procs :
        /\ ApplyFailed(p)
           => /\ ~Has(log[p], "register") /\ ~Built(p)
              /\ pc[p] \in {"comp_copy", "comp_remove", "crashed",
                            "exit_backup_failed", "exit_patch_failed"}
        /\ pc[p] \in {"exit_backup_failed", "exit_patch_failed"}
           => ApplyFailed(p) /\ Last(hist[p]).res \in {"BackupFailed", "PatchFailed"}
        /\ (pc[p] = "build" \/ Built(p))
           => /\ Has(log[p], "register")
              /\ Len(hist[p]) >= 2
              /\ hist[p][2].op = "apply"
              /\ hist[p][2].res \in {"patched", "noop"}

C14_Witness ==
    \E p \in Procs :
        /\ pc[p] = "exit_patch_failed"
        /\ Has(log[p], "read_error")
        /\ ~Has(log[p], "register")
        /\ HasMatch(original_header)

(* C15: every change of the original file is either a copy of the backup's *)
(* content or the write of the patched content, and is made while the      *)
(* backup file exists; and the file effects of each run occur in the       *)
(* order: recovery copy, removal of the old backup, backup creation,       *)
(* patch write, build, copy back from the backup, removal of the backup.   *)
Rank(e) ==
    CASE e = "ec_copy" -> 1
      [] e = "ec_remove" -> 2
      [] e = "bak_copy" -> 3
      [] e = "truncate" -> 4
      [] e \in {"write", "write_error"} -> 5
      [] e \in {"build_ok", "build_fail"} -> 6
      [] e \in {"rs_copy", "comp_copy"} -> 7
      [] e \in {"rs_remove", "comp_remove"} -> 8
      [] OTHER -> 0

FileEffects(l) == SelectSeq(l, LAMBDA e : Rank(e) > 0)

InOrder(l) ==
    \A i, j \in 1..Len(l) : i < j => Rank(l[i]) < Rank(l[j])

IsPatchWrite ==
    \E p \in Procs :
        /\ pc[p] \in {"open_w", "write"}
        /\ content[p] = Patched(backup_header.data)
        /\ original_header'.data \in PartialWrites(content[p]) \cup {content[p]}

WriteDiscipline ==
    original_header' # original_header
    => /\ Exists(backup_header)
       /\ backup_header' = backup_header
       /\ original_header' = CopyFile(backup_header) \/ IsPatchWrite

C15_WritesAndOrder ==
    /\ [](\A p \in Procs : InOrder(FileEffects(log[p])))
    /\ [][WriteDiscipline]_vars

C15_Witness ==
    \E p \in Procs :
        /\ pc[p] = "done"
        /\ FileEffects(log[p]) = <<"ec_copy", "ec_remove", "bak_copy", "truncate",
                                   "write", "build_ok", "rs_copy", "rs_remove">>

(* C16: with the invocations on one target serialized, any sequence of     *)
(* invocations with any mix of outcomes (build succeeded, build failed     *)
(* with restore_backup not run, patch block failed, run stopped) keeps the *)
(* backup pristine, and an invocation whose restore_backup has finished    *)
(* leaves the original pristine and no backup.  The script takes no lock:  *)
(* this rests on the runs not overlapping.                                 *)
C16_SerializedInvocations ==
    /\ Exists(backup_header) => backup_header = File(pristine)
    /\ \A p \in Procs :
          (pc[p] = "done" /\ Last(hist[p]).op = "restore")
          => original_header = File(pristine) /\ backup_header = NoFile

C16_Witness ==
    \E p \in Procs :
        /\ pc[p] = "done"
        /\ {"build_failed", "apply_failed"} \subseteq outcomes
        /\ runs = 3
        /\ HasMatch(original_header)
        /\ Exists(hist[p][1].pre.bak)
        /\ Clean

====
